---- MODULE Spec2Model ----
(***************************************************************************)
(* Model of the gin tracing middleware of ginhttp/server.go: one           *)
(* invocation of the handler function returned by Middleware, the span it  *)
(* starts on the tracer, the downstream handler chain run by c.Next, and   *)
(* the deferred recovery.                                                  *)
(*                                                                         *)
(* Strings are sequences of tokens.  Where the code looks inside a string  *)
(* (the URL path, the remote address) a token is one character; elsewhere  *)
(* (method, host, component name) a token is an opaque piece of text.      *)
(*                                                                         *)
(* Panic values are non-nil: the Go runtime (1.21 and later) turns         *)
(* panic(nil) into a *runtime.PanicNilError, shown here as the value       *)
(* "PanicNilError".                                                        *)
(***************************************************************************)
EXTENDS Integers, Sequences, FiniteSets, TLC

VARIABLES
    opts,       \* the mwOptions the handler function closes over
    req,        \* c.Request
    pc,         \* the statement the handler function is at
    op,         \* the operation name
    spans,      \* the spans the tracer has started
    sp,         \* the span of this request (an index of spans), 0 before StartSpan
    ctxSpan,    \* the span in the request's context, 0 if none
    deferred,   \* whether defer recovery(sp) has been executed
    status,     \* c.Writer.Status()
    hsteps,     \* the calls the handler chain has made
    hset,       \* the tag keys the handler chain has set on the span
    panicking,  \* the value of the panic that is unwinding, or NoPanic
    err,        \* recovery's err
    raised,     \* who panicked first, and with what value
    observed    \* what the span observer was handed

vars == <<opts, req, pc, op, spans, sp, ctxSpan, deferred, status,
          hsteps, hset, panicking, err, raised, observed>>

-----------------------------------------------------------------------------
(* Bounds of the model.                                                    *)

\* Calls the downstream handler chain makes (status writes, tag writes)
\* before it returns or panics.
MaxHandlerSteps == 2

\* Most segments of a URL path in the path enumeration of SpecOp.
MaxSegments == 3

\* Longest remote address of the exhaustive address enumeration of SpecIp.
MaxAddrLen == 3

-----------------------------------------------------------------------------
(* Program constants.                                                      *)

defaultComponentName == <<"net/http">>

StatusInternalServerError == 500

StatusNotFound == 404

StatusOK == 200

\* uint16(x) of a Go int.
Uint16(x) == x % 65536

-----------------------------------------------------------------------------
(* String helpers (package strings).                                       *)

RECURSIVE SeqOfSeqsUpTo(_, _)
SeqOfSeqsUpTo(S, n) ==
    IF n = 0 THEN {<<>>}
    ELSE LET shorter == SeqOfSeqsUpTo(S, n - 1)
         IN  shorter \cup {Append(s, c) : s \in {t \in shorter : Len(t) = n - 1}, c \in S}

\* s[i:] with i counted from 0, for 0 <= i <= len(s)
SliceFrom(s, i) == SubSeq(s, i + 1, Len(s))

\* s[:i] with i counted from 0, for 0 <= i <= len(s)
SliceTo(s, i) == SubSeq(s, 1, i)

\* strings.Replace(s, "//", "/", -1): non-overlapping matches, left to right
RECURSIVE ReplaceDoubleSlash(_)
ReplaceDoubleSlash(s) ==
    IF Len(s) = 0 THEN <<>>
    ELSE IF Len(s) >= 2 /\ s[1] = "/" /\ s[2] = "/"
         THEN <<"/">> \o ReplaceDoubleSlash(SliceFrom(s, 2))
         ELSE <<s[1]>> \o ReplaceDoubleSlash(SliceFrom(s, 1))

\* strings.Split(s, sep) for a one-character sep: always at least one element
RECURSIVE Split(_, _)
Split(s, sep) ==
    IF \A i \in 1..Len(s) : s[i] # sep THEN <<s>>
    ELSE LET i == CHOOSE j \in 1..Len(s) :
                      s[j] = sep /\ \A k \in 1..(j - 1) : s[k] # sep
         IN  <<SliceTo(s, i - 1)>> \o Split(SliceFrom(s, i), sep)

\* strings.Join(elems, sep)
RECURSIVE Join(_, _)
Join(elems, sep) ==
    IF Len(elems) = 0 THEN <<>>
    ELSE IF Len(elems) = 1 THEN elems[1]
    ELSE elems[1] \o sep \o Join(Tail(elems), sep)

\* strings.LastIndex(s, c) for a one-character c, counted from 0; -1 if absent
LastIndex(s, c) ==
    IF \A i \in 1..Len(s) : s[i] # c THEN -1
    ELSE (CHOOSE j \in 1..Len(s) :
              s[j] = c /\ \A k \in (j + 1)..Len(s) : s[k] # c) - 1

-----------------------------------------------------------------------------
(* strcase.UpperCamelCase (github.com/stoewer/go-strcase).                 *)

LowerLetters == <<"a", "b", "c", "d", "e", "f", "g", "h", "i", "j", "k", "l", "m",
                  "n", "o", "p", "q", "r", "s", "t", "u", "v", "w", "x", "y", "z">>

UpperLetters == <<"A", "B", "C", "D", "E", "F", "G", "H", "I", "J", "K", "L", "M",
                  "N", "O", "P", "Q", "R", "S", "T", "U", "V", "W", "X", "Y", "Z">>

isLower(c) == \E i \in 1..Len(LowerLetters) : LowerLetters[i] = c

isUpper(c) == \E i \in 1..Len(UpperLetters) : UpperLetters[i] = c

toUpper(c) ==
    IF isLower(c) THEN UpperLetters[CHOOSE i \in 1..Len(LowerLetters) : LowerLetters[i] = c]
    ELSE c

toLower(c) ==
    IF isUpper(c) THEN LowerLetters[CHOOSE i \in 1..Len(UpperLetters) : UpperLetters[i] = c]
    ELSE c

isDelimiter(c) == c \in {"-", "_", " "}

\* camelCase(s, true): a character after a delimiter or at the start is
\* upper-cased, one after a lower-case letter is kept, any other lower-cased;
\* delimiters are dropped.
RECURSIVE camelCaseFrom(_, _)
camelCaseFrom(s, i) ==
    IF i > Len(s) THEN <<>>
    ELSE LET curr == s[i]
             out  == IF isDelimiter(curr) THEN <<>>
                     ELSE IF i = 1 \/ isDelimiter(s[i - 1]) THEN <<toUpper(curr)>>
                     ELSE IF isLower(s[i - 1]) THEN <<curr>>
                     ELSE <<toLower(curr)>>
         IN  out \o camelCaseFrom(s, i + 1)

UpperCamelCase(s) == camelCaseFrom(s, 1)

-----------------------------------------------------------------------------
(* Panics.                                                                 *)

NoPanic == "no panic"

Returned(v) == [panics |-> FALSE, val |-> v]

Panicked(v) == [panics |-> TRUE, val |-> v]

-----------------------------------------------------------------------------
(* defaultOperationName                                                    *)

\* r.URL.Path with "//" replaced, then [1:], which panics on an empty string
defaultOperationName(path) ==
    LET replaced == ReplaceDoubleSlash(path)
    IN  IF Len(replaced) < 1
        THEN Panicked("slice bounds out of range [1:0]")
        ELSE LET url     == Split(SliceFrom(replaced, 1), "/")
                 dropped == IF url[1] = <<"a", "p", "i">> THEN Tail(url) ELSE url
             IN  Returned(UpperCamelCase(Join(dropped, <<"_">>)))

-----------------------------------------------------------------------------
(* net.ParseIP, IP.To4 and IP.String (package net).  An IP is held as its  *)
(* eight 16-bit groups; ParseIP returns the 16-byte form, so a dotted      *)
(* IPv4 address a.b.c.d is ::ffff:a.b.c.d.                                 *)

Nil == <<"nil">>

DecDigits == <<"0", "1", "2", "3", "4", "5", "6", "7", "8", "9">>

HexLetters == <<"a", "b", "c", "d", "e", "f">>

HexUpperLetters == <<"A", "B", "C", "D", "E", "F">>

isDigit(c) == \E i \in 1..Len(DecDigits) : DecDigits[i] = c

isHexDigit(c) ==
    \/ isDigit(c)
    \/ \E i \in 1..Len(HexLetters) : HexLetters[i] = c \/ HexUpperLetters[i] = c

HexVal(c) ==
    IF isDigit(c) THEN (CHOOSE i \in 1..Len(DecDigits) : DecDigits[i] = c) - 1
    ELSE (CHOOSE i \in 1..Len(HexLetters) : HexLetters[i] = c \/ HexUpperLetters[i] = c) + 9

\* dtoi / xtoi: the value n of the longest prefix of digits, the number c of
\* characters used, and ok = some digit was read and n stayed below 0xFFFFFF
RECURSIVE strtoi(_, _, _, _)
strtoi(s, base, n, c) ==
    IF c < Len(s) /\ (IF base = 10 THEN isDigit(s[c + 1]) ELSE isHexDigit(s[c + 1]))
    THEN LET m == n * base + HexVal(s[c + 1])
         IN  IF m >= 16777215 THEN [n |-> 0, c |-> c, ok |-> FALSE]
             ELSE strtoi(s, base, m, c + 1)
    ELSE [n |-> n, c |-> c, ok |-> c > 0]

dtoi(s) == strtoi(s, 10, 0, 0)

xtoi(s) == strtoi(s, 16, 0, 0)

\* parseIPv4: four decimal fields 0..255 without leading zeros, separated by
\* dots, and nothing else; the result is the four bytes, or Nil
RECURSIVE parseIPv4From(_, _)
parseIPv4From(s, p) ==
    IF Len(p) = 4 THEN (IF Len(s) # 0 THEN Nil ELSE p)
    ELSE IF Len(s) = 0 THEN Nil
    ELSE IF Len(p) > 0 /\ s[1] # "." THEN Nil
    ELSE LET t == IF Len(p) > 0 THEN SliceFrom(s, 1) ELSE s
             d == dtoi(t)
         IN  IF ~d.ok \/ d.n > 255 THEN Nil
             ELSE IF d.c > 1 /\ t[1] = "0" THEN Nil
             ELSE parseIPv4From(SliceFrom(t, d.c), Append(p, d.n))

parseIPv4(s) == parseIPv4From(s, <<>>)

\* IPv4(a, b, c, d): the 16-byte form
IPv4(p) == <<0, 0, 0, 0, 0, 65535, p[1] * 256 + p[2], p[3] * 256 + p[4]>>

\* The loop of parseIPv6: g are the groups parsed so far, ellipsis the number
\* of groups before "::" or -1.  The result is ParseFail or the state at the break.
ParseFail == [ok |-> FALSE]

RECURSIVE parseIPv6Loop(_, _, _)
parseIPv6Loop(s, g, ellipsis) ==
    IF Len(g) >= 8 THEN [ok |-> TRUE, s |-> s, g |-> g, ellipsis |-> ellipsis]
    ELSE
    LET x == xtoi(s)
    IN  IF ~x.ok \/ x.n > 65535 THEN ParseFail
        ELSE IF x.c < Len(s) /\ s[x.c + 1] = "."
        THEN IF ellipsis < 0 /\ Len(g) # 6 THEN ParseFail
             ELSE IF Len(g) + 2 > 8 THEN ParseFail
             ELSE LET ip4 == parseIPv4(s)
                  IN  IF ip4 = Nil THEN ParseFail
                      ELSE [ok |-> TRUE, s |-> <<>>,
                            g |-> g \o <<ip4[1] * 256 + ip4[2], ip4[3] * 256 + ip4[4]>>,
                            ellipsis |-> ellipsis]
        ELSE LET g1 == Append(g, x.n)
                 s1 == SliceFrom(s, x.c)
             IN  IF Len(s1) = 0 THEN [ok |-> TRUE, s |-> s1, g |-> g1, ellipsis |-> ellipsis]
                 ELSE IF s1[1] # ":" \/ Len(s1) = 1 THEN ParseFail
                 ELSE LET s2 == SliceFrom(s1, 1)
                      IN  IF s2[1] = ":"
                          THEN IF ellipsis >= 0 THEN ParseFail
                               ELSE IF Len(s2) = 1
                               THEN [ok |-> TRUE, s |-> <<>>, g |-> g1, ellipsis |-> Len(g1)]
                               ELSE parseIPv6Loop(SliceFrom(s2, 1), g1, Len(g1))
                          ELSE parseIPv6Loop(s2, g1, ellipsis)

Zeros(n) == [i \in 1..n |-> 0]

parseIPv6(s) ==
    LET lead == Len(s) >= 2 /\ s[1] = ":" /\ s[2] = ":"
        rest == IF lead THEN SliceFrom(s, 2) ELSE s
    IN  IF lead /\ Len(rest) = 0 THEN Zeros(8)
        ELSE LET r == parseIPv6Loop(rest, <<>>, IF lead THEN 0 ELSE -1)
             IN  IF ~r.ok THEN Nil
                 ELSE IF Len(r.s) # 0 THEN Nil
                 ELSE IF Len(r.g) < 8
                 THEN IF r.ellipsis < 0 THEN Nil
                      ELSE SubSeq(r.g, 1, r.ellipsis) \o Zeros(8 - Len(r.g))
                               \o SubSeq(r.g, r.ellipsis + 1, Len(r.g))
                 ELSE IF r.ellipsis >= 0 THEN Nil
                 ELSE r.g

\* ParseIP: the first '.' or ':' decides between the two forms
ParseIP(s) ==
    LET marks == {i \in 1..Len(s) : s[i] \in {".", ":"}}
    IN  IF marks = {} THEN Nil
        ELSE LET first == CHOOSE i \in marks : \A j \in marks : i <= j
             IN  IF s[first] = "."
                 THEN (LET p == parseIPv4(s) IN IF p = Nil THEN Nil ELSE IPv4(p))
                 ELSE parseIPv6(s)

\* ip.To4() != nil: ten zero bytes, then ff ff
To4(ip) == (\A i \in 1..5 : ip[i] = 0) /\ ip[6] = 65535

RECURSIVE FormatNat(_, _)
FormatNat(n, base) ==
    LET digit == (DecDigits \o HexLetters)[(n % base) + 1]
    IN  IF n < base THEN <<digit>> ELSE Append(FormatNat(n \div base, base), digit)

\* number of zero groups from group i on
RECURSIVE ZeroRun(_, _)
ZeroRun(ip, i) == IF i <= 8 /\ ip[i] = 0 THEN 1 + ZeroRun(ip, i + 1) ELSE 0

RECURSIVE FormatGroups(_, _, _, _)
FormatGroups(ip, i, e0, e1) ==
    IF i > 8 THEN <<>>
    ELSE IF i = e0
    THEN <<":", ":">>
             \o (IF e1 > 8 THEN <<>>
                 ELSE FormatNat(ip[e1], 16) \o FormatGroups(ip, e1 + 1, e0, e1))
    ELSE (IF i > 1 THEN <<":">> ELSE <<>>)
             \o FormatNat(ip[i], 16) \o FormatGroups(ip, i + 1, e0, e1)

\* ip.String(): dotted decimal for an IPv4 address, else the groups in hex
\* with the first longest run of two or more zero groups written "::"
IPString(ip) ==
    IF To4(ip)
    THEN FormatNat(ip[7] \div 256, 10) \o <<".">> \o FormatNat(ip[7] % 256, 10) \o <<".">>
             \o FormatNat(ip[8] \div 256, 10) \o <<".">> \o FormatNat(ip[8] % 256, 10)
    ELSE LET longest == CHOOSE i \in 1..8 :
                            \A j \in 1..8 :
                                \/ ZeroRun(ip, j) < ZeroRun(ip, i)
                                \/ ZeroRun(ip, j) = ZeroRun(ip, i) /\ i <= j
             e0 == IF ZeroRun(ip, longest) >= 2 THEN longest ELSE 0
             e1 == IF e0 = 0 THEN 0 ELSE longest + ZeroRun(ip, longest)
         IN  FormatGroups(ip, 1, e0, e1)

-----------------------------------------------------------------------------
(* Spans and tags (opentracing.Span, package ext).  A tag value carries    *)
(* its Go type.                                                            *)

String(s) == <<"string", s>>

Uint16Value(n) == <<"uint16", n>>

Bool(b) == <<"bool", b>>

SpanKindRPCServer == <<"enum", "server">>

\* span.SetTag(key, value)
SetTag(span, key, value) == [span EXCEPT !.tags = (key :> value) @@ @]

\* span.Finish()
FinishSpan(span) == [span EXCEPT !.finished = @ + 1]

HasTag(span, key) == key \in DOMAIN span.tags

\* tr.StartSpan(op, ext.RPCServerOption(ctx))
NewSpan(name) == [op |-> name, tags |-> ("span.kind" :> SpanKindRPCServer), finished |-> 0]

-----------------------------------------------------------------------------
(* setIp and urlTag                                                        *)

\* setIp parsing the whole remote address, port included
setIpNoPortStrip(addr, span) ==
    LET ip == ParseIP(addr)
    IN  IF ip # Nil
        THEN IF To4(ip)
             THEN SetTag(span, "peer.ipv4", String(IPString(ip)))
             ELSE SetTag(span, "peer.ipv6", String(IPString(ip)))
        ELSE span

setIp(addr, span) ==
    LET idx  == LastIndex(addr, ":")
        host == IF idx > 0 THEN SliceTo(addr, idx) ELSE addr
        ip   == ParseIP(host)
    IN  IF ip # Nil
        THEN IF To4(ip)
             THEN SetTag(span, "peer.ipv4", String(IPString(ip)))
             ELSE SetTag(span, "peer.ipv6", String(IPString(ip)))
        ELSE span

\* urlTag built from the whole URL, query included
urlTagWithQuery(r) ==
    LET proto == IF ~r.TLS THEN <<"http">> ELSE <<"https">>
    IN  proto \o <<"://">> \o r.Host \o r.Path \o <<"?">> \o r.RawQuery

urlTag(r) ==
    LET proto == IF ~r.TLS THEN <<"http">> ELSE <<"https">>
    IN  proto \o <<"://">> \o r.Host \o r.Path

\* u.String() of the URL of a server request: the path, then "?" and the query
URLString(r) ==
    IF Len(r.RawQuery) = 0 THEN r.Path ELSE r.Path \o <<"?">> \o r.RawQuery

-----------------------------------------------------------------------------
(* The functions of mwOptions.  Each is one of a few named behaviours; a   *)
(* caller-supplied function may panic.                                     *)

OpNameFuncs == {"defaultOperationName", "custom"}

UrlTagFuncs == {"nil", "path", "string", "panics"}

ErrorFuncs == {"default", "status >= 404", "panics"}

ObserverKeys == {"http.uri", "http.method", "http.url", "peer.ipv4", "peer.ipv6",
                 "component", "http.status_code", "error"}

SpanObservers ==
    {[kind |-> "noop", key |-> "none"], [kind |-> "panics", key |-> "none"]}
        \cup {[kind |-> "set", key |-> k] : k \in ObserverKeys}

ObserverValue == String(<<"set by observer">>)

ComponentNames == {<<>>, <<"comp">>}

\* opts.opNameFunc(c.Request)
CallOpNameFunc(f, r) ==
    IF f = "defaultOperationName" THEN defaultOperationName(r.Path)
    ELSE Returned(<<"HTTP ">> \o r.Method \o <<": /root">>)

\* opts.urlTagFunc(c.Request.URL)
CallUrlTagFunc(f, r) ==
    CASE f = "path"   -> Returned(r.Path)
      [] f = "string" -> Returned(URLString(r))
      [] OTHER        -> Panicked("urlTagFunc panic")

\* opts.spanObserver(sp, c.Request)
CallSpanObserver(f, span) ==
    CASE f.kind = "noop" -> Returned(span)
      [] f.kind = "set"  -> Returned(SetTag(span, f.key, ObserverValue))
      [] OTHER           -> Panicked("spanObserver panic")

\* opts.errorFunc(c)
CallErrorFunc(f, st) ==
    CASE f = "default"       -> Returned(st >= StatusInternalServerError)
      [] f = "status >= 404" -> Returned(st >= StatusNotFound)
      [] OTHER               -> Panicked("errorFunc panic")

\* the mwOptions of Middleware(tr) with no option given
DefaultOptions ==
    [opNameFunc |-> "defaultOperationName", spanObserver |-> [kind |-> "noop", key |-> "none"],
     urlTagFunc |-> "nil", errorFunc |-> "default", componentName |-> <<>>]

Options ==
    [opNameFunc : OpNameFuncs, spanObserver : SpanObservers, urlTagFunc : UrlTagFuncs,
     errorFunc : ErrorFuncs, componentName : ComponentNames]

-----------------------------------------------------------------------------
(* Requests and the downstream handler chain.                              *)

Hello == <<"/", "h", "e", "l", "l", "o">>

MainPaths == {Hello, <<"/", "a", "p", "i", "/", "v", "1">>, <<>>}

LocalAddr == <<"1", "2", "7", ".", "0", ".", "0", ".", "1", ":", "8", "0">>

MainAddrs == {LocalAddr, <<"2", "0", "0", "1", ":", "d", "b", "8", ":", ":", "6", "8", ":", "1", "2", "4">>, <<"[", ":", ":", "1", "]", ":", "8", "0">>}

BaseRequest ==
    [Method |-> <<"GET">>, Path |-> Hello, Host |-> <<"example.com">>,
     RawQuery |-> <<"token=secret">>, TLS |-> FALSE, RemoteAddr |-> LocalAddr]

Requests ==
    {[BaseRequest EXCEPT !.Path = p, !.TLS = t, !.RemoteAddr = a] :
        p \in MainPaths, t \in BOOLEAN, a \in MainAddrs}

\* the path enumeration of SpecOp: "", "*", and "/" followed by up to
\* MaxSegments segments joined by "/"
PathSegments == {<<"a", "p", "i">>, <<"v", "1">>, <<>>, <<"A", "p", "i", "_", "x">>}

OpPaths ==
    {<<>>, <<"*">>}
        \cup {<<"/">> \o Join(segs, <<"/">>) : segs \in SeqOfSeqsUpTo(PathSegments, MaxSegments)}

\* the address enumeration of SpecIp: every string of up to MaxAddrLen
\* characters of AddrAlphabet, and the addresses of AddrSamples
AddrAlphabet == {"1", ":", ".", "f"}

AddrSamples ==
    {<<"1", "9", "2", ".", "1", "6", "8", ".", "0", ".", "1", ":", "1", "2", "4">>,
     <<"2", "0", "0", "1", ":", "d", "b", "8", ":", ":", "6", "8", ":", "1", "2", "4">>,
     <<"[", ":", ":", "1", "]", ":", "8", "0">>,
     <<":", ":", "f", "f", "f", "f", ":", "1", ".", "2", ".", "3", ".", "4", ":", "8", "0">>,
     <<":", "8", "0">>,
     <<"1", ".", "2", ".", "3", ".", "4">>,
     <<":", ":", "1", ":", "8", "0">>,
     <<":", ":", "1">>,
     <<"l", "o", "c", "a", "l", "h", "o", "s", "t", ":", "8", "0">>,
     <<"2", "0", "0", "1", ":", "D", "B", "8", ":", "0", ":", "0", ":", "1", ":", "0", ":", "0", ":", "1", ":", "4", "4", "3">>,
     <<"0", "1", ".", "2", ".", "3", ".", "4", ":", "5">>,
     <<"2", "5", "6", ".", "1", ".", "1", ".", "1", ":", "1">>,
     <<"@">>,
     <<"1", ":", ":", "2", ":", ":", "3", ":", "4">>,
     <<"1", ":", "2", ":", "3", ":", "4", ":", "5", ":", "6", ":", "7", ":", "8", ":", "9">>,
     <<"1", "0", ".", "0", ".", "0", ".", "2", "5", "5", ":", "6", "5", "5", "3", "5">>,
     <<"0", ":", "0", ":", "0", ":", "0", ":", "0", ":", "f", "f", "f", "f", ":", "a", "0", "0", ":", "1", ":", "8", "0">>}

IpAddrs == SeqOfSeqsUpTo(AddrAlphabet, MaxAddrLen) \cup AddrSamples

\* the status codes the handler chain writes; the writer starts at 200
Statuses == {StatusOK, StatusNotFound, 499, StatusInternalServerError}

\* the tags the handler chain sets on the span it finds in the request context
HandlerKeys == {"error", "http.status_code"}

HandlerValue == String(<<"set by handler">>)

\* the values the handler chain panics with
PanicValues == {"panic test", "PanicNilError"}

-----------------------------------------------------------------------------
(* The state after Middleware(tr, options...) has returned the handler     *)
(* function and gin has called it for one request.                         *)

InitWith(os, rs) ==
    /\ opts \in os
    /\ req \in rs
    /\ pc = "start"
    /\ op = <<>>
    /\ spans = <<>>
    /\ sp = 0
    /\ ctxSpan = 0
    /\ deferred = FALSE
    /\ status = StatusOK
    /\ hsteps = 0
    /\ hset = {}
    /\ panicking = NoPanic
    /\ err = NoPanic
    /\ raised = [by |-> "nobody", val |-> NoPanic]
    /\ observed = [calls |-> 0, tags |-> {}]

Init == InitWith(Options, Requests)

InitOp == InitWith({DefaultOptions}, {[BaseRequest EXCEPT !.Path = p] : p \in OpPaths})

InitIp == InitWith({DefaultOptions}, {[BaseRequest EXCEPT !.RemoteAddr = a] : a \in IpAddrs})

\* panic(v) raised by `by`: the deferred recovery runs if it is registered,
\* else the panic leaves the middleware at once
Raise(v, by) ==
    /\ panicking' = v
    /\ raised' = [by |-> by, val |-> v]
    /\ pc' = IF deferred THEN "recovery" ELSE "done"

-----------------------------------------------------------------------------
(* The handler function returned by Middleware, statement by statement.    *)

\* op := opts.opNameFunc(c.Request); sp := tr.StartSpan(op, ext.RPCServerOption(ctx))
StartSpan ==
    /\ pc = "start"
    /\ LET r == CallOpNameFunc(opts.opNameFunc, req)
       IN  IF r.panics
           THEN /\ Raise(r.val, "opNameFunc")
                /\ UNCHANGED <<op, spans, sp>>
           ELSE /\ op' = r.val
                /\ spans' = Append(spans, NewSpan(r.val))
                /\ sp' = Len(spans) + 1
                /\ pc' = "method"
                /\ UNCHANGED <<panicking, raised>>
    /\ UNCHANGED <<opts, req, ctxSpan, deferred, status, hsteps, hset, err, observed>>

\* ext.HTTPMethod.Set(sp, c.Request.Method)
TagMethod ==
    /\ pc = "method"
    /\ spans' = [spans EXCEPT ![sp] = SetTag(@, "http.method", String(req.Method))]
    /\ pc' = "url"
    /\ UNCHANGED <<opts, req, op, sp, ctxSpan, deferred, status, hsteps, hset, panicking, err,
                   raised, observed>>

\* ext.HTTPUrl.Set(sp, ...): opts.urlTagFunc if set, else urlTag(c)
TagUrl ==
    /\ pc = "url"
    /\ LET r == IF opts.urlTagFunc # "nil" THEN CallUrlTagFunc(opts.urlTagFunc, req)
                ELSE Returned(urlTag(req))
       IN  IF r.panics
           THEN /\ Raise(r.val, "urlTagFunc")
                /\ UNCHANGED spans
           ELSE /\ spans' = [spans EXCEPT ![sp] = SetTag(@, "http.url", String(r.val))]
                /\ pc' = "ip"
                /\ UNCHANGED <<panicking, raised>>
    /\ UNCHANGED <<opts, req, op, sp, ctxSpan, deferred, status, hsteps, hset, err, observed>>

\* setIp(c.Request.RemoteAddr, sp)
SetIp ==
    /\ pc = "ip"
    /\ spans' = [spans EXCEPT ![sp] = setIp(req.RemoteAddr, @)]
    /\ pc' = "observer"
    /\ UNCHANGED <<opts, req, op, sp, ctxSpan, deferred, status, hsteps, hset, panicking, err,
                   raised, observed>>

\* opts.spanObserver(sp, c.Request); `observed` is what the observer was
\* handed: how often it was called, and the tags the span then had
Observe ==
    /\ pc = "observer"
    /\ observed' = [calls |-> observed.calls + 1, tags |-> spans[sp].tags]
    /\ LET r == CallSpanObserver(opts.spanObserver, spans[sp])
       IN  IF r.panics
           THEN /\ Raise(r.val, "spanObserver")
                /\ UNCHANGED spans
           ELSE /\ spans' = [spans EXCEPT ![sp] = r.val]
                /\ pc' = "component"
                /\ UNCHANGED <<panicking, raised>>
    /\ UNCHANGED <<opts, req, op, sp, ctxSpan, deferred, status, hsteps, hset, err>>

\* the component tag set only when the span has none yet
TagComponentIfAbsent ==
    /\ pc = "component"
    /\ LET componentName == IF opts.componentName = <<>> THEN defaultComponentName
                            ELSE opts.componentName
       IN  spans' = IF HasTag(spans[sp], "component") THEN spans
                    ELSE [spans EXCEPT ![sp] = SetTag(@, "component", String(componentName))]
    /\ pc' = "context"
    /\ UNCHANGED <<opts, req, op, sp, ctxSpan, deferred, status, hsteps, hset, panicking, err,
                   raised, observed>>

\* ext.Component.Set(sp, componentName), "net/http" if the option is empty
TagComponent ==
    /\ pc = "component"
    /\ LET componentName == IF opts.componentName = <<>> THEN defaultComponentName
                            ELSE opts.componentName
       IN  spans' = [spans EXCEPT ![sp] = SetTag(@, "component", String(componentName))]
    /\ pc' = "context"
    /\ UNCHANGED <<opts, req, op, sp, ctxSpan, deferred, status, hsteps, hset, panicking, err,
                   raised, observed>>

\* the request's context left without the span
StoreContextSkipped ==
    /\ pc = "context"
    /\ deferred' = TRUE
    /\ pc' = "next"
    /\ UNCHANGED <<opts, req, op, spans, sp, ctxSpan, status, hsteps, hset, panicking, err,
                   raised, observed>>

\* c.Request = c.Request.WithContext(opentracing.ContextWithSpan(..., sp));
\* defer recovery(sp); then c.Next() is entered
StoreContext ==
    /\ pc = "context"
    /\ ctxSpan' = sp
    /\ deferred' = TRUE
    /\ pc' = "next"
    /\ UNCHANGED <<opts, req, op, spans, sp, status, hsteps, hset, panicking, err, raised,
                   observed>>

-----------------------------------------------------------------------------
(* c.Next(): the downstream handler chain.                                 *)

\* c.Status(s) / c.String(s, ...): the status c.Writer.Status() reports
HandlerWriteStatus ==
    /\ pc = "next"
    /\ hsteps < MaxHandlerSteps
    /\ \E s \in Statuses : status' = s
    /\ hsteps' = hsteps + 1
    /\ UNCHANGED <<hset, opts, req, pc, op, spans, sp, ctxSpan, deferred, panicking, err, raised,
                   observed>>

\* opentracing.SpanFromContext(c.Request.Context()).SetTag(k, ...)
HandlerSetTag ==
    /\ pc = "next"
    /\ hsteps < MaxHandlerSteps
    /\ ctxSpan \in 1..Len(spans)
    /\ \E k \in HandlerKeys :
           /\ spans' = [spans EXCEPT ![ctxSpan] = SetTag(@, k, HandlerValue)]
           /\ hset' = hset \cup {k}
    /\ hsteps' = hsteps + 1
    /\ UNCHANGED <<opts, req, pc, op, sp, ctxSpan, deferred, status, panicking, err, raised,
                   observed>>

\* c.Next() returns
HandlerReturn ==
    /\ pc = "next"
    /\ pc' = "errorFunc"
    /\ UNCHANGED <<opts, req, op, spans, sp, ctxSpan, deferred, status, hsteps, hset, panicking,
                   err, raised, observed>>

\* a handler of the chain panics
HandlerPanic ==
    /\ pc = "next"
    /\ \E v \in PanicValues : Raise(v, "handler")
    /\ UNCHANGED <<opts, req, op, spans, sp, ctxSpan, deferred, status, hsteps, hset, err,
                   observed>>

-----------------------------------------------------------------------------
(* After c.Next() has returned.                                            *)

\* ext.Error.Set(sp, opts.errorFunc(c)): the tag set to false as well
ErrorCheckSetsFalse ==
    /\ pc = "errorFunc"
    /\ LET r == CallErrorFunc(opts.errorFunc, status)
       IN  IF r.panics
           THEN /\ Raise(r.val, "errorFunc")
                /\ UNCHANGED spans
           ELSE /\ spans' = [spans EXCEPT ![sp] = SetTag(@, "error", Bool(r.val))]
                /\ pc' = "status"
                /\ UNCHANGED <<panicking, raised>>
    /\ UNCHANGED <<opts, req, op, sp, ctxSpan, deferred, status, hsteps, hset, err, observed>>

\* if opts.errorFunc(c) { ext.Error.Set(sp, true) }
ErrorCheck ==
    /\ pc = "errorFunc"
    /\ LET r == CallErrorFunc(opts.errorFunc, status)
       IN  IF r.panics
           THEN /\ Raise(r.val, "errorFunc")
                /\ UNCHANGED spans
           ELSE /\ spans' = IF r.val THEN [spans EXCEPT ![sp] = SetTag(@, "error", Bool(TRUE))]
                            ELSE spans
                /\ pc' = "status"
                /\ UNCHANGED <<panicking, raised>>
    /\ UNCHANGED <<opts, req, op, sp, ctxSpan, deferred, status, hsteps, hset, err, observed>>

\* ext.HTTPStatusCode.Set(sp, uint16(c.Writer.Status()))
TagStatus ==
    /\ pc = "status"
    /\ spans' = [spans EXCEPT ![sp] = SetTag(@, "http.status_code", Uint16Value(Uint16(status)))]
    /\ pc' = "finish"
    /\ UNCHANGED <<opts, req, op, sp, ctxSpan, deferred, status, hsteps, hset, panicking, err,
                   raised, observed>>

\* sp.Finish()
Finish ==
    /\ pc = "finish"
    /\ spans' = [spans EXCEPT ![sp] = FinishSpan(@)]
    /\ pc' = "return"
    /\ UNCHANGED <<opts, req, op, sp, ctxSpan, deferred, status, hsteps, hset, panicking, err,
                   raised, observed>>

\* a deferred recovery that finishes the span whether or not it recovered
ReturnRecoveryFinishes ==
    /\ pc = "return"
    /\ spans' = [spans EXCEPT ![sp] = FinishSpan(@)]
    /\ pc' = "done"
    /\ UNCHANGED <<opts, req, op, sp, ctxSpan, deferred, status, hsteps, hset, panicking, err,
                   raised, observed>>

\* the function returns; the deferred recovery(sp) finds recover() == nil
Return ==
    /\ pc = "return"
    /\ pc' = "done"
    /\ UNCHANGED <<opts, req, op, spans, sp, ctxSpan, deferred, status, hsteps, hset, panicking,
                   err, raised, observed>>

-----------------------------------------------------------------------------
(* recovery(sp), deferred, while a panic unwinds.                          *)

\* recovery tagging the status the writer holds
RecoverTagWriterStatus ==
    /\ pc = "recovery"
    /\ panicking # NoPanic
    /\ err' = panicking
    /\ panicking' = NoPanic
    /\ spans' = [spans EXCEPT ![sp] =
                    SetTag(SetTag(@, "http.status_code", Uint16Value(Uint16(status))),
                           "error", Bool(TRUE))]
    /\ pc' = "recovery finish"
    /\ UNCHANGED <<opts, req, op, sp, ctxSpan, deferred, status, hsteps, hset, raised, observed>>

\* err := recover(); err != nil: status code 500 and error = true
RecoverTag ==
    /\ pc = "recovery"
    /\ panicking # NoPanic
    /\ err' = panicking
    /\ panicking' = NoPanic
    /\ spans' = [spans EXCEPT ![sp] =
                    SetTag(SetTag(@, "http.status_code",
                                  Uint16Value(Uint16(StatusInternalServerError))),
                           "error", Bool(TRUE))]
    /\ pc' = "recovery finish"
    /\ UNCHANGED <<opts, req, op, sp, ctxSpan, deferred, status, hsteps, hset, raised, observed>>

\* sp.Finish()
RecoverFinish ==
    /\ pc = "recovery finish"
    /\ spans' = [spans EXCEPT ![sp] = FinishSpan(@)]
    /\ pc' = "recovery panic"
    /\ UNCHANGED <<opts, req, op, sp, ctxSpan, deferred, status, hsteps, hset, panicking, err,
                   raised, observed>>

\* recovery returning without panic(err)
RepanicSwallowed ==
    /\ pc = "recovery panic"
    /\ pc' = "done"
    /\ UNCHANGED <<opts, req, op, spans, sp, ctxSpan, deferred, status, hsteps, hset, panicking,
                   err, raised, observed>>

\* panic(err)
Repanic ==
    /\ pc = "recovery panic"
    /\ panicking' = err
    /\ pc' = "done"
    /\ UNCHANGED <<opts, req, op, spans, sp, ctxSpan, deferred, status, hsteps, hset, err, raised,
                   observed>>

-----------------------------------------------------------------------------

Next ==
    \/ StartSpan
    \/ TagMethod
    \/ TagUrl
    \/ SetIp
    \/ Observe
    \/ TagComponent
    \/ StoreContext
    \/ HandlerWriteStatus
    \/ HandlerSetTag
    \/ HandlerReturn
    \/ HandlerPanic
    \/ ErrorCheck
    \/ TagStatus
    \/ Finish
    \/ Return
    \/ RecoverTag
    \/ RecoverFinish
    \/ Repanic

\* every configuration of the options, a few requests
Spec == Init /\ [][Next]_vars

\* the default options, every path of OpPaths
SpecOp == InitOp /\ [][Next]_vars

\* the default options, every remote address of IpAddrs
SpecIp == InitIp /\ [][Next]_vars

-----------------------------------------------------------------------------
(* Properties.                                                             *)

\* c.Next() was entered and has ended, by returning or by panicking
NextEnded == deferred /\ pc # "next"

NextPanicked == raised.by = "handler"

\* the statements before c.Next() is entered
BeforeNext == {"start", "method", "url", "ip", "observer", "component", "context"}

TagsOf(i) == spans[i].tags

TagIs(i, key, value) == key \in DOMAIN TagsOf(i) /\ TagsOf(i)[key] = value

\* the configured error predicate returned true on the final response state
ErrorPredicateHolds ==
    \/ opts.errorFunc = "default" /\ status >= 500
    \/ opts.errorFunc = "status >= 404" /\ status >= 404

\* the span observer has run and set `key`
ObserverSet(key) ==
    observed.calls > 0 /\ opts.spanObserver.kind = "set" /\ opts.spanObserver.key = key

\* C1: once the handler chain has ended (by returning with any status or by
\* panicking) and the middleware has exited, Finish() has been called exactly
\* once on the request's span; no span is ever finished twice.
C1_FinishExactlyOnce ==
    /\ \A i \in 1..Len(spans) : spans[i].finished <= 1
    /\ (pc = "done" /\ NextEnded) => spans[sp].finished = 1

C1_Witness == pc = "done" /\ NextPanicked /\ spans[sp].finished = 1 /\ hsteps > 0

\* C2 as stated: on the finished span http.status_code is the writer's final
\* status whenever the handler chain returned normally, and 500 when it
\* panicked.
C2_StatusCodeTag_Original ==
    (pc = "done" /\ NextEnded) =>
        IF NextPanicked
        THEN TagIs(sp, "http.status_code", Uint16Value(500))
        ELSE TagIs(sp, "http.status_code", Uint16Value(status))

\* C2 amended: on the finished span http.status_code is the writer's final
\* status when the handler chain returned normally and the error predicate
\* returned, and 500 when the handler chain or the error predicate panicked.
C2_StatusCodeTag ==
    (pc = "done" /\ NextEnded) =>
        IF raised.by \in {"handler", "errorFunc"}
        THEN TagIs(sp, "http.status_code", Uint16Value(500))
        ELSE TagIs(sp, "http.status_code", Uint16Value(status))

C2_Witness ==
    /\ pc = "done"
    /\ sp # 0
    /\ NextPanicked
    /\ status = StatusNotFound
    /\ TagIs(sp, "http.status_code", Uint16Value(500))

\* C3 as stated: the finished span carries error = true exactly if the error
\* predicate holds of the final response or the handler chain panicked, and
\* carries no error tag otherwise.
C3_ErrorTag_Original ==
    (pc = "done" /\ NextEnded) =>
        IF ErrorPredicateHolds \/ NextPanicked
        THEN TagIs(sp, "error", Bool(TRUE))
        ELSE "error" \notin DOMAIN TagsOf(sp)

\* C3 amended: the finished span carries error = true if the error predicate
\* returned true on the final response, or the handler chain or the predicate
\* itself panicked; otherwise the middleware has not touched the tag: it is
\* absent unless the handler chain or the span observer set it, and then it
\* holds the value they gave it.
C3_ErrorTag ==
    (pc = "done" /\ NextEnded) =>
        IF ErrorPredicateHolds \/ raised.by \in {"handler", "errorFunc"}
        THEN TagIs(sp, "error", Bool(TRUE))
        ELSE IF "error" \in hset THEN TagIs(sp, "error", HandlerValue)
        ELSE IF ObserverSet("error") THEN TagIs(sp, "error", ObserverValue)
        ELSE "error" \notin DOMAIN TagsOf(sp)

C3_Witness ==
    /\ pc = "done"
    /\ sp # 0
    /\ spans[sp].finished = 1
    /\ opts.errorFunc = "default"
    /\ status = 499
    /\ "error" \notin DOMAIN TagsOf(sp)

\* C4: when the handler chain panics with value v, the span is tagged with
\* status code 500 and error = true and is finished before the panic is raised
\* again, and the middleware exits with a panic carrying v, never by a normal
\* return.
C4_PanicPropagates ==
    NextPanicked =>
        /\ pc \in {"recovery panic", "done"} =>
               /\ TagIs(sp, "http.status_code", Uint16Value(500))
               /\ TagIs(sp, "error", Bool(TRUE))
               /\ spans[sp].finished = 1
        /\ pc \in {"recovery finish", "recovery panic"} => err = raised.val
        /\ pc = "done" => panicking = raised.val /\ panicking # NoPanic

C4_Witness ==
    /\ pc = "done"
    /\ sp # 0
    /\ raised = [by |-> "handler", val |-> "panic test"]
    /\ panicking = "panic test"
    /\ TagIs(sp, "error", Bool(TRUE))

\* C5: while the handler chain runs, the request's context holds the span
\* started for the request and that span is not finished; a span is finished
\* only after the handler chain has returned or panicked, and it is the span
\* in the context.
C5_ContextSpan ==
    /\ pc = "next" => ctxSpan = sp /\ sp \in 1..Len(spans) /\ spans[sp].finished = 0
    /\ \A i \in 1..Len(spans) :
           spans[i].finished > 0 => i = sp /\ i = ctxSpan /\ pc \notin BeforeNext \cup {"next"}

C5_Witness == pc = "next" /\ hset # {} /\ ctxSpan = sp /\ spans[sp].finished = 0

\* the remote address without its port: the text before the last colon
HostOf(addr) ==
    LET colons == {i \in 1..Len(addr) : addr[i] = ":"}
    IN  IF colons = {} THEN addr
        ELSE SubSeq(addr, 1, (CHOOSE i \in colons : \A j \in colons : j <= i) - 1)

\* C6: after setIp, with the port stripped at the last colon: a host that
\* parses as an IPv4 or IPv4-mapped address gives only peer.ipv4, in dotted
\* decimal; any other IP gives only peer.ipv6, in canonical form; a host
\* that does not parse gives neither tag.  The two tags are never both set.
C6_PeerIp ==
    (sp # 0 /\ pc \notin {"start", "method", "url", "ip"}) =>
        LET ip  == ParseIP(HostOf(req.RemoteAddr))
            has == DOMAIN TagsOf(sp) \cap {"peer.ipv4", "peer.ipv6"}
        IN  /\ has # {"peer.ipv4", "peer.ipv6"}
            /\ ip = Nil => has = {}
            /\ (ip # Nil /\ To4(ip)) =>
                   has = {"peer.ipv4"} /\ TagsOf(sp)["peer.ipv4"] = String(IPString(ip))
            /\ (ip # Nil /\ ~To4(ip)) =>
                   has = {"peer.ipv6"} /\ TagsOf(sp)["peer.ipv6"] = String(IPString(ip))
            /\ req.RemoteAddr = <<"1", "9", "2", ".", "1", "6", "8", ".", "0", ".", "1", ":", "1", "2", "4">> =>
                   TagIs(sp, "peer.ipv4", String(<<"1", "9", "2", ".", "1", "6", "8", ".", "0", ".", "1">>))
            /\ req.RemoteAddr = <<"2", "0", "0", "1", ":", "d", "b", "8", ":", ":", "6", "8", ":", "1", "2", "4">> =>
                   TagIs(sp, "peer.ipv6", String(<<"2", "0", "0", "1", ":", "d", "b", "8", ":", ":", "6", "8">>))
            /\ req.RemoteAddr = <<"2", "0", "0", "1", ":", "D", "B", "8", ":", "0", ":", "0", ":", "1", ":", "0", ":", "0", ":", "1", ":", "4", "4", "3">> =>
                   TagIs(sp, "peer.ipv6", String(<<"2", "0", "0", "1", ":", "d", "b", "8", ":", ":", "1", ":", "0", ":", "0", ":", "1">>))

C6_Witness ==
    /\ pc = "observer"
    /\ req.RemoteAddr = <<":", ":", "f", "f", "f", "f", ":", "1", ".", "2", ".", "3", ".", "4", ":", "8", "0">>
    /\ TagIs(sp, "peer.ipv4", String(<<"1", ".", "2", ".", "3", ".", "4">>))
    /\ "peer.ipv6" \notin DOMAIN TagsOf(sp)

\* the middleware has set http.url (the URL-tag function returned) and the
\* span observer has not replaced it
UrlTagStands ==
    /\ sp # 0
    /\ pc \notin {"start", "method", "url"}
    /\ raised.by # "urlTagFunc"
    /\ ~ObserverSet("http.url")

ClaimedOperationName(path) ==
    LET collapsed == ReplaceDoubleSlash(path)
        stripped  == IF Len(collapsed) > 0 /\ collapsed[1] = "/" THEN Tail(collapsed)
                     ELSE collapsed
        segments  == Split(stripped, "/")
        kept      == IF segments[1] = <<"a", "p", "i">> THEN Tail(segments) ELSE segments
    IN  UpperCamelCase(Join(kept, <<"_">>))

\* C8 as stated: with the default operation-name function, for every request
\* path the operation name is computed without failure and is the name the
\* claim describes.
C8_OperationName ==
    (opts.opNameFunc = "defaultOperationName" /\ pc # "start") =>
        /\ raised.by # "opNameFunc"
        /\ sp # 0
        /\ spans[sp].op = ClaimedOperationName(req.Path)

C10_EveryStartedSpanFinished ==
    pc = "done" => \A i \in 1..Len(spans) : spans[i].finished = 1

====
